---------------------------- MODULE Spec2Model ----------------------------
(***************************************************************************)
(* A model of BrickNPlateBot: the recent-event log of config.py, the four  *)
(* lookup tools of tools.py, the two agent dispatchers of agents.py and    *)
(* the chat/event binding of bot.py.                                       *)
(*                                                                         *)
(* Texts are sequences of one-character strings, so that len(), slicing,   *)
(* lower() and the `in` substring test act on them as they do in Python.   *)
(* An optional value is None (the empty tuple) or Some(x) (a 1-tuple).     *)
(***************************************************************************)
EXTENDS Integers, Sequences, FiniteSets, TLC

VARIABLES
  recent_events,  \* config.recent_events: the subscribers and raiders lists
  now,            \* the clock datetime.now() reads
  appended,       \* history: every entry ever appended to each list, in order
  stream_file,    \* the file at STREAM_INFO_FILE: absent, or present with a content
  writes,         \* how many times the bot has opened the stream file for writing
  tool,           \* the latest lookup-tool call: arguments, responses, outcome
  in_flight,      \* the get_stream_info calls that worker threads are running
  bot,            \* the binding: the handler in progress or last run, and its event
  agent,          \* the executor of the dispatch in progress
  sent,           \* the texts handed to channel.send, in order
  chatLog         \* history: input and reply of every process_chat_message call

eventVars == <<recent_events, now, appended>>
toolVars == <<stream_file, writes, tool, in_flight>>
botVars == <<bot, agent, sent, chatLog>>
vars ==
  <<recent_events, now, appended, stream_file, writes, tool, in_flight, bot, agent, sent, chatLog>>

None == <<>>
Some(x) == <<x>>

(***************************************************************************)
(* Bounds of the model.                                                    *)
(***************************************************************************)
\* appends made to the two recent-event lists in one run
MaxAppends == 11

(***************************************************************************)
(* config.py: the recent-event log.                                        *)
(***************************************************************************)
\* config.py:54 and :66, the cap of each list
RecentCap == 10

Alice == <<"a","l","i","c","e">>
Bob == <<"B","o","b">>
Tier1000 == <<"1","0","0","0">>
Tier3000 == <<"3","0","0","0">>

\* the arguments bot.py passes: event_subscribe gives (name, sub_plan),
\* event_resub gives (name, sub_plan, cumulative_months, message text)
SubscriberArgs ==
  { [username |-> Alice, tier |-> Some(Tier1000), months |-> None, message |-> None],
    [username |-> Bob, tier |-> Some(Tier3000), months |-> Some(3),
     message |-> Some(<<"h","i">>)] }

RaiderArgs == { [username |-> Alice, viewers |-> 5] }

\* a trim that pops the newest entry, list.pop(), instead of the oldest
Trim_PopNewest(list) ==
  IF Len(list) > RecentCap THEN SubSeq(list, 1, Len(list) - 1) ELSE list

\* if len(list) > 10: list.pop(0)
Trim(list) == IF Len(list) > RecentCap THEN Tail(list) ELSE list

add_subscriber(username, tier, months, message) ==
  LET entry == [username |-> username, tier |-> tier, months |-> months,
                message |-> message, timestamp |-> now]
  IN /\ Len(appended.subscribers) + Len(appended.raiders) < MaxAppends
     /\ recent_events' =
          [recent_events EXCEPT !.subscribers = Trim(Append(@, entry))]
     /\ appended' = [appended EXCEPT !.subscribers = Append(@, entry)]
     /\ now' = now + 1

add_raider(username, viewers) ==
  LET entry == [username |-> username, viewers |-> viewers, timestamp |-> now]
  IN /\ Len(appended.subscribers) + Len(appended.raiders) < MaxAppends
     /\ recent_events' =
          [recent_events EXCEPT !.raiders = Trim(Append(@, entry))]
     /\ appended' = [appended EXCEPT !.raiders = Append(@, entry)]
     /\ now' = now + 1

InitEvents ==
  /\ recent_events = [subscribers |-> <<>>, raiders |-> <<>>]
  /\ now = 0
  /\ appended = [subscribers |-> <<>>, raiders |-> <<>>]
  /\ stream_file = [exists |-> FALSE]
  /\ writes = 0
  /\ tool = [name |-> "none"]
  /\ in_flight = <<>>
  /\ bot = [pc |-> "idle", handled |-> 0]
  /\ agent = [kind |-> "none"]
  /\ sent = <<>>
  /\ chatLog = <<>>

RecordSubscriber ==
  /\ \E a \in SubscriberArgs : add_subscriber(a.username, a.tier, a.months, a.message)
  /\ UNCHANGED <<toolVars, botVars>>

RecordRaider ==
  /\ \E a \in RaiderArgs : add_raider(a.username, a.viewers)
  /\ UNCHANGED <<toolVars, botVars>>

NextEvents == RecordSubscriber \/ RecordRaider

SpecEvents == InitEvents /\ [][NextEvents]_vars

(***************************************************************************)
(* C1.  Each recent-event list holds at most 10 entries, and they are      *)
(* exactly the most recent appends to that list in arrival order; once 11  *)
(* entries were appended the first-appended one is gone and the newest is  *)
(* the last element.                                                       *)
(***************************************************************************)
LastN(s, n) == IF Len(s) <= n THEN s ELSE SubSeq(s, Len(s) - n + 1, Len(s))

C1_CappedLog ==
  \A k \in {"subscribers", "raiders"} :
    /\ Len(recent_events[k]) <= 10
    /\ recent_events[k] = LastN(appended[k], 10)
    /\ Len(appended[k]) >= 11 =>
         /\ \A i \in 1..Len(recent_events[k]) : recent_events[k][i] # appended[k][1]
         /\ recent_events[k][Len(recent_events[k])] = appended[k][Len(appended[k])]

C1_Witness ==
  /\ Len(appended.subscribers) = 11
  /\ Len(recent_events.subscribers) = 10
  /\ recent_events.subscribers[10] = appended.subscribers[11]

(***************************************************************************)
(* tools.py: the values the tools handle.  A Python value carries its      *)
(* type; a call either returns a value or raises, and counts the HTTP      *)
(* requests it made.                                                       *)
(***************************************************************************)
Str(s) == [type |-> "str", value |-> s]
\* an f-string: its template and the values formatted into it
FStr(template, args) == [type |-> "str", template |-> template, args |-> args]
Dict(f) == [type |-> "dict", items |-> f]
List(s) == [type |-> "list", items |-> s]
Bool(b) == [type |-> "bool", value |-> b]
IntValue(n) == [type |-> "int", value |-> n]
NoneValue == [type |-> "NoneType"]
EmptyDict == Dict([k \in {} |-> NoneValue])

Return(v) == [outcome |-> "return", value |-> v, calls |-> 0]
Raise(e) == [outcome |-> "raise", error |-> e, calls |-> 0]

\* statement sequencing: an exception in r skips the rest of the try block
Then(r, F(_)) ==
  IF r.outcome = "raise" THEN r
  ELSE LET s == F(r.value) IN [s EXCEPT !.calls = @ + r.calls]

\* bool(v) of a container, a string or None
Truthy(v) ==
  CASE v.type = "dict" -> DOMAIN v.items # {}
    [] v.type = "list" -> Len(v.items) > 0
    [] v.type = "str" -> v # Str("")
    [] v.type = "bool" -> v.value
    [] OTHER -> FALSE

\* v[key] for a string key
Item(v, key) ==
  IF v.type = "dict"
  THEN IF key \in DOMAIN v.items THEN Return(v.items[key])
       ELSE Raise(Str("KeyError"))
  ELSE Raise(Str("TypeError"))

\* v[0]
First(v) ==
  IF v.type = "list"
  THEN IF Len(v.items) > 0 THEN Return(v.items[1]) ELSE Raise(Str("IndexError"))
  ELSE IF v.type = "dict" THEN Raise(Str("KeyError")) ELSE Raise(Str("TypeError"))

\* v[:n]
Slice(v, n) ==
  IF v.type = "list"
  THEN Return(List(SubSeq(v.items, 1, IF Len(v.items) < n THEN Len(v.items) ELSE n)))
  ELSE Raise(Str("TypeError"))

\* v.get(key, default): only a dict has the method
Get(v, key, default) ==
  IF v.type = "dict"
  THEN Return(IF key \in DOMAIN v.items THEN v.items[key] ELSE default)
  ELSE Raise(Str("AttributeError"))

(***************************************************************************)
(* An HTTP exchange: the transport may fail, the status may be an error    *)
(* status, and the body may or may not be JSON.                            *)
(***************************************************************************)
ConnectionFailed == [transport |-> "error"]
HttpResponse(code, json) == [transport |-> "ok", status_code |-> code, json |-> json]
NotJson == [type |-> "invalid"]

\* requests.get / requests.post followed by raise_for_status()
Request(resp) ==
  IF resp.transport = "error"
  THEN [Raise(Str("ConnectionError")) EXCEPT !.calls = 1]
  ELSE IF resp.status_code >= 400
       THEN [Raise(Str("HTTPError")) EXCEPT !.calls = 1]
       ELSE [Return(resp) EXCEPT !.calls = 1]

\* response.json()
Json(resp) ==
  IF resp.json.type = "invalid" THEN Raise(Str("JSONDecodeError")) ELSE Return(resp.json)

\* the exchange produced a JSON payload
ResponseOk(resp) ==
  /\ resp.transport = "ok"
  /\ resp.status_code < 400
  /\ resp.json.type # "invalid"

ErrorDict(message) == Dict([error |-> message])

(***************************************************************************)
(* get_lego_set_info and search_lego_sets                                  *)
(***************************************************************************)
get_lego_set_info_try(set_num, resp) ==
  Then(Request(resp), LAMBDA response : Json(response))

get_lego_set_info(set_num, resp) ==
  LET r == get_lego_set_info_try(set_num, resp)
  IN IF r.outcome = "raise"
     THEN [Return(ErrorDict(FStr("Could not find information for set {set_num}",
                                 <<set_num>>))) EXCEPT !.calls = r.calls]
     ELSE r

\* a search that returns every result found, without the [:5]
search_lego_sets_try_NoSlice(query, resp) ==
  Then(Request(resp), LAMBDA response :
  Then(Json(response), LAMBDA json :
  Get(json, "results", List(<<>>))))

search_lego_sets_try(query, resp) ==
  Then(Request(resp), LAMBDA response :
  Then(Json(response), LAMBDA json :
  Then(Get(json, "results", List(<<>>)), LAMBDA results :
  Slice(results, 5))))

search_lego_sets(query, resp) ==
  LET r == search_lego_sets_try(query, resp)
  IN IF r.outcome = "raise"
     THEN [Return(ErrorDict(FStr("Could not find any sets matching '{query}'",
                                 <<query>>))) EXCEPT !.calls = r.calls]
     ELSE r

(***************************************************************************)
(* get_twitch_user_info: five requests in a row inside one try block.      *)
(* env is the sequence of the responses the five requests would get:       *)
(* token, user by login, channel, the bot's own channel, follow relation.  *)
(***************************************************************************)
\* `key in v`
Contains(v, key) ==
  CASE v.type = "dict" -> Return(Bool(key \in DOMAIN v.items))
    [] v.type = "list" ->
         Return(Bool(\E i \in 1..Len(v.items) : v.items[i] = Str(key)))
    [] OTHER -> Raise(Str("TypeError"))

\* a local variable that may never have been assigned
Unassigned == [type |-> "local", defined |-> FALSE]
Assigned(v) == [type |-> "local", defined |-> TRUE, value |-> v]

\* a follow check that takes a failed request for "not following"
FollowCheck_FailureIsNotFollowing(broadcasters, follows_resp) ==
  IF ~Truthy(broadcasters) THEN Return(Unassigned)
  ELSE [Return(Assigned(NoneValue)) EXCEPT !.calls = 1]

\* lines 118-134: the follow check is made only when the bot's own channel resolves
FollowCheck(broadcasters, follows_resp) ==
  IF ~Truthy(broadcasters) THEN Return(Unassigned)
  ELSE
  Then(First(broadcasters), LAMBDA broadcaster :
  Then(Item(broadcaster, "id"), LAMBDA broadcaster_id :
  Then(Request(follows_resp), LAMBDA follows_response :
  Then(Json(follows_response), LAMBDA follow_data :
  Then(Contains(follow_data, "data"), LAMBDA has_data :
  IF ~has_data.value THEN Return(Assigned(NoneValue))
  ELSE
  Then(Item(follow_data, "data"), LAMBDA follows :
  IF ~Truthy(follows) THEN Return(Assigned(NoneValue))
  ELSE
  Then(First(follows), LAMBDA follow :
  Then(Item(follow, "followed_at"), LAMBDA followed_at :
  Return(Assigned(followed_at))))))))))

\* lines 137-147
ComposeUserInfo(user_info, user_id, channel_data, following_since) ==
  Then(Item(user_info, "display_name"), LAMBDA display_name :
  Then(Item(user_info, "profile_image_url"), LAMBDA profile_image_url :
  Then(Item(user_info, "created_at"), LAMBDA created_at :
  Then(Item(user_info, "description"), LAMBDA description :
  Then(Item(user_info, "broadcaster_type"), LAMBDA broadcaster_type :
  Return(Dict([username |-> display_name,
               id |-> user_id,
               profile_image |-> profile_image_url,
               account_created |-> created_at,
               description |-> description,
               broadcaster_type |-> broadcaster_type,
               channel |-> channel_data,
               following_since |->
                 IF following_since.defined THEN following_since.value ELSE NoneValue,
               is_following |->
                 Bool(following_since.defined /\ following_since.value # NoneValue)
              ])))))))

get_twitch_user_info_try(username, env) ==
  Then(Request(env[1]), LAMBDA auth_response :
  Then(Json(auth_response), LAMBDA auth_json :
  Then(Item(auth_json, "access_token"), LAMBDA access_token :
  Then(Request(env[2]), LAMBDA users_response :
  Then(Json(users_response), LAMBDA user_data :
  Then(Item(user_data, "data"), LAMBDA users :
  IF ~Truthy(users)
  THEN Return(ErrorDict(FStr("User '{username}' not found on Twitch", <<username>>)))
  ELSE
  Then(First(users), LAMBDA user_info :
  Then(Item(user_info, "id"), LAMBDA user_id :
  Then(Request(env[3]), LAMBDA channel_response :
  Then(Json(channel_response), LAMBDA channel_json :
  Then(Item(channel_json, "data"), LAMBDA channels :
  Then(IF Truthy(channels) THEN First(channels) ELSE Return(EmptyDict),
       LAMBDA channel_data :
  Then(Request(env[4]), LAMBDA broadcaster_response :
  Then(Json(broadcaster_response), LAMBDA broadcaster_data :
  Then(Item(broadcaster_data, "data"), LAMBDA broadcasters :
  Then(FollowCheck(broadcasters, env[5]), LAMBDA following_since :
  ComposeUserInfo(user_info, user_id, channel_data, following_since)
  ))))))))))))))))

\* the same without the except clause of lines 151-153
get_twitch_user_info_NoExcept(username, env) == get_twitch_user_info_try(username, env)

get_twitch_user_info(username, env) ==
  LET r == get_twitch_user_info_try(username, env)
  IN IF r.outcome = "raise"
     THEN [Return(ErrorDict(FStr("Could not fetch information for user {username}: {str(e)}",
                                 <<username, r.error>>))) EXCEPT !.calls = r.calls]
     ELSE r

(***************************************************************************)
(* The responses the Twitch and catalog services may give.                 *)
(***************************************************************************)
UserRecord ==
  Dict([id |-> Str("1001"), display_name |-> Str("Alice"),
        profile_image_url |-> Str("https://img/alice.png"),
        created_at |-> Str("2020-01-01T00:00:00Z"),
        description |-> Str("I build bricks"), broadcaster_type |-> Str("affiliate")])

\* a user record that lacks a field the result is composed from
UserRecordNoDescription ==
  Dict([id |-> Str("1001"), display_name |-> Str("Alice"),
        profile_image_url |-> Str("https://img/alice.png"),
        created_at |-> Str("2020-01-01T00:00:00Z"),
        broadcaster_type |-> Str("")])

ChannelRecord ==
  Dict([broadcaster_id |-> Str("1001"), game_name |-> Str("LEGO"), title |-> Str("MOC night")])

Data(records) == Dict([data |-> List(records)])

AuthResponses ==
  { ConnectionFailed,
    HttpResponse(401, Dict([message |-> Str("invalid client")])),
    HttpResponse(200, Dict([access_token |-> Str("token"), expires_in |-> Str("5000")])) }

UsersResponses ==
  { ConnectionFailed,
    HttpResponse(200, Data(<<>>)),
    HttpResponse(200, Data(<<UserRecord>>)),
    HttpResponse(200, Data(<<UserRecordNoDescription>>)) }

ChannelResponses ==
  { HttpResponse(500, NotJson),
    HttpResponse(200, Data(<<>>)),
    HttpResponse(200, Data(<<ChannelRecord>>)) }

BroadcasterResponses ==
  { ConnectionFailed,
    HttpResponse(200, Data(<<>>)),
    HttpResponse(200, Data(<<Dict([id |-> Str("2002")])>>)) }

FollowsResponses ==
  { HttpResponse(401, Dict([message |-> Str("missing scope")])),
    HttpResponse(200, Dict([total |-> Str("0")])),
    HttpResponse(200, Data(<<>>)),
    HttpResponse(200, Data(<<Dict([followed_at |-> Str("2024-02-02T00:00:00Z")])>>)) }

TwitchEnvs ==
  { <<a, u, c, b, f>> : a \in AuthResponses, u \in UsersResponses,
                        c \in ChannelResponses, b \in BroadcasterResponses,
                        f \in FollowsResponses }

\* results a catalog search may list
MaxResults == 6

SetRecord(i) == Dict([set_num |-> Str("75192-1"), name |-> Str("Millennium Falcon"),
                      rank |-> IntValue(i)])

LegoSetResponses ==
  { ConnectionFailed,
    HttpResponse(404, Dict([detail |-> Str("Not found.")])),
    HttpResponse(200, NotJson),
    HttpResponse(200, List(<<SetRecord(1)>>)),
    HttpResponse(200, SetRecord(1)) }

LegoSearchResponses ==
  { ConnectionFailed,
    HttpResponse(500, NotJson),
    HttpResponse(200, Dict([count |-> Str("0")])),
    HttpResponse(200, List(<<SetRecord(1)>>)) }
  \cup { HttpResponse(200, Dict([count |-> Str("n"),
                                 results |-> List([i \in 1..n |-> SetRecord(i)])]))
         : n \in 0..MaxResults }

(***************************************************************************)
(* get_stream_info and the persisted stream document.  The file holds a    *)
(* YAML text, modelled by what a YAML text is at its top level: a mapping  *)
(* written as key/value entries, a sequence, nothing at all, or a text     *)
(* that does not parse.                                                    *)
(***************************************************************************)
Default_current_build ==
  Dict([set_number |-> Str("42115-1"),
        name |-> Str("Lamborghini Sián FKP 37"),
        progress |-> Str("50% complete"),
        started_on |-> Str("2025-04-01")])

Default_schedule ==
  Dict([monday |-> Str("No stream"),
        tuesday |-> Str("7pm-10pm EST"),
        wednesday |-> Str("No stream"),
        thursday |-> Str("7pm-10pm EST"),
        friday |-> Str("8pm-12am EST"),
        saturday |-> Str("3pm-7pm EST"),
        sunday |-> Str("No stream")])

Default_upcoming_builds ==
  List(<<Dict([set_number |-> Str("75192-1"),
          name |-> Str("Millennium Falcon"),
          planned_start |-> Str("April 15, 2025")]),
         Dict([set_number |-> Str("10294-1"),
          name |-> Str("Titanic"),
          planned_start |-> Str("May 1, 2025")])>>)

Default_channel_info ==
  Dict([description |-> Str("Building Lego sets brick by brick! Join us for relaxing brick building sessions."),
        rules |-> List(<<Str("Be kind and respectful"),
           Str("No spoilers about build techniques unless asked"),
           Str("Have fun and share your love for Lego")>>)])

Default_faq ==
  List(<<Dict([question |-> Str("What camera do you use?"),
          answer |-> Str("I use a Sony a6400 for the main shot and a Sony a7III for closeups.")]),
         Dict([question |-> Str("Do you take build requests?"),
          answer |-> Str("Yes! Subscribers can suggest builds for our community poll.")]),
         Dict([question |-> Str("How long have you been streaming?"),
          answer |-> Str("I started streaming Lego builds in January 2024.")])>>)

create_default_stream_info ==
  Dict([current_build |-> Default_current_build,
        schedule |-> Default_schedule,
        upcoming_builds |-> Default_upcoming_builds,
        channel_info |-> Default_channel_info,
        faq |-> Default_faq])

\* the top-level keys the model's documents use, in the order yaml.dump sorts them
KeyOrder == <<"channel_info", "current_build", "faq", "merch", "schedule", "upcoming_builds">>

Absent == [exists |-> FALSE]
Present(content) == [exists |-> TRUE, content |-> content]

EmptyText == [kind |-> "empty"]
Garbage == [kind |-> "garbage"]

\* yaml.dump(value, file): a mapping is written entry by entry, keys sorted
yaml_dump(v) ==
  CASE v.type = "dict" ->
         LET keys == SelectSeq(KeyOrder, LAMBDA k : k \in DOMAIN v.items)
         IN [kind |-> "mapping",
             entries |-> [i \in 1..Len(keys) |-> [key |-> keys[i], value |-> v.items[keys[i]]]]]
    [] v.type = "list" -> [kind |-> "sequence", items |-> v.items]
    [] OTHER -> [kind |-> "scalar", value |-> v]

\* yaml.safe_load(file)
yaml_safe_load(content) ==
  CASE content.kind = "mapping" ->
         Return(Dict([k \in {content.entries[i].key : i \in 1..Len(content.entries)} |->
                        LET i == CHOOSE j \in 1..Len(content.entries) :
                                   content.entries[j].key = k
                        IN content.entries[i].value]))
    [] content.kind = "sequence" -> Return(List(content.items))
    [] content.kind = "empty" -> Return(NoneValue)
    [] content.kind = "scalar" -> Return(content.value)
    [] OTHER -> Raise(Str("YAMLError"))

\* what a failed write leaves behind: the first n entries of the text
Truncated(content, n) ==
  IF n = 0 THEN EmptyText
  ELSE [content EXCEPT !.entries = SubSeq(@, 1, n)]

\* lines 159-169: read the file, or create it with the default document.
\* io is how the file operations of this call go.
LoadStreamInfo(file, io) ==
  IF file.exists
  THEN IF io = "read_error"
       THEN [r |-> Raise(Str("PermissionError")), file |-> file, wrote |-> 0]
       ELSE [r |-> yaml_safe_load(file.content), file |-> file, wrote |-> 0]
  ELSE LET stream_info == create_default_stream_info
       IN CASE io = "open_error" ->
                 [r |-> Raise(Str("PermissionError")), file |-> file, wrote |-> 0]
            [] io = "write_error_empty" ->
                 [r |-> Raise(Str("OSError")),
                  file |-> Present(Truncated(yaml_dump(stream_info), 0)), wrote |-> 1]
            [] io = "write_error_partial" ->
                 [r |-> Raise(Str("OSError")),
                  file |-> Present(Truncated(yaml_dump(stream_info), 2)), wrote |-> 1]
            [] OTHER ->
                 [r |-> Return(stream_info),
                  file |-> Present(yaml_dump(stream_info)), wrote |-> 1]

\* `not category`
NoCategory(category) == category = None \/ category = Some("")

\* a selection that ignores the category and hands out the whole document
SelectCategory_Whole(category, stream_info) == Return(stream_info)

\* lines 171-178
SelectCategory(category, stream_info) ==
  IF NoCategory(category) THEN Return(stream_info)
  ELSE
  Then(Contains(stream_info, category[1]), LAMBDA found :
  IF found.value
  THEN Then(Item(stream_info, category[1]), LAMBDA value :
       Return(Dict(category[1] :> value)))
  ELSE Return(ErrorDict(FStr("No information found for category '{category}'",
                             <<category[1]>>))))

get_stream_info_try(category, file, io) ==
  LET loaded == LoadStreamInfo(file, io)
  IN [loaded EXCEPT !.r = Then(loaded.r, LAMBDA stream_info :
                                SelectCategory(category, stream_info))]

get_stream_info(category, file, io) ==
  LET t == get_stream_info_try(category, file, io)
  IN IF t.r.outcome = "raise"
     THEN [t EXCEPT !.r = Return(ErrorDict(
             FStr("Could not retrieve stream information: {str(e)}", <<t.r.error>>)))]
     ELSE t

\* how the file operations of a call may go, given whether the file is there
IoOutcomes(file) ==
  IF file.exists THEN {"ok", "read_error"}
  ELSE {"ok", "open_error", "write_error_empty", "write_error_partial"}

\* a document the operator has edited: other values, one more category
EditedDocument ==
  Dict([current_build |-> Dict([set_number |-> Str("10294-1"), name |-> Str("Titanic")]),
        schedule |-> Default_schedule,
        merch |-> List(<<Str("stickers")>>)])

\* the files a call may find
InitialFiles ==
  { Absent,
    Present(yaml_dump(create_default_stream_info)),
    Present(yaml_dump(EditedDocument)),
    Present(yaml_dump(List(<<Str("schedule"), Str("faq")>>))),
    Present(EmptyText),
    Present(Garbage) }

Categories ==
  { None, Some(""), Some("schedule"), Some("current_build"), Some("faq"),
    Some("merch"), Some("giveaways") }

(***************************************************************************)
(* The lookup tools called one after another, each against any response    *)
(* of the services and any persisted file.                                 *)
(***************************************************************************)
SetNums == {"75192"}
Queries == {"falcon"}
Logins == {"alice"}

\* the record of a call: env holds the responses its requests received, in order,
\* and io how its file operations went
Called(name, args, env, io, result, before) ==
  [name |-> name, args |-> args, env |-> SubSeq(env, 1, result.calls), io |-> io,
   result |-> result, file_before |-> before]

CallGetLegoSetInfo(set_nums, responses) ==
  /\ \E set_num \in set_nums, resp \in responses :
       tool' = Called("get_lego_set_info", <<set_num>>, <<resp>>, "none",
                      get_lego_set_info(set_num, resp), stream_file)
  /\ UNCHANGED <<stream_file, writes, in_flight>>

CallSearchLegoSets(queries, responses) ==
  /\ \E query \in queries, resp \in responses :
       tool' = Called("search_lego_sets", <<query>>, <<resp>>, "none",
                      search_lego_sets(query, resp), stream_file)
  /\ UNCHANGED <<stream_file, writes, in_flight>>

CallGetTwitchUserInfo(logins, envs) ==
  /\ \E username \in logins, env \in envs :
       tool' = Called("get_twitch_user_info", <<username>>, env, "none",
                      get_twitch_user_info(username, env), stream_file)
  /\ UNCHANGED <<stream_file, writes, in_flight>>

CallGetStreamInfo(categories) ==
  \E category \in categories, io \in IoOutcomes(stream_file) :
    LET t == get_stream_info(category, stream_file, io)
    IN /\ tool' = Called("get_stream_info", <<category>>, <<>>, io, t.r, stream_file)
       /\ stream_file' = t.file
       /\ writes' = writes + t.wrote
       /\ UNCHANGED in_flight

InitTools ==
  /\ recent_events = [subscribers |-> <<>>, raiders |-> <<>>]
  /\ now = 0
  /\ appended = [subscribers |-> <<>>, raiders |-> <<>>]
  /\ stream_file \in InitialFiles
  /\ writes = 0
  /\ tool = [name |-> "none"]
  /\ in_flight = <<>>
  /\ bot = [pc |-> "idle", handled |-> 0]
  /\ agent = [kind |-> "none"]
  /\ sent = <<>>
  /\ chatLog = <<>>

LegoSetLookup == CallGetLegoSetInfo(SetNums, LegoSetResponses) /\ UNCHANGED <<eventVars, botVars>>
LegoSearch == CallSearchLegoSets(Queries, LegoSearchResponses) /\ UNCHANGED <<eventVars, botVars>>
TwitchUserLookup == CallGetTwitchUserInfo(Logins, TwitchEnvs) /\ UNCHANGED <<eventVars, botVars>>
StreamInfoLookup == CallGetStreamInfo(Categories) /\ UNCHANGED <<eventVars, botVars>>

NextTools == LegoSetLookup \/ LegoSearch \/ TwitchUserLookup \/ StreamInfoLookup

SpecTools == InitTools /\ [][NextTools]_vars

\* the tool was called and returned this value
Returned(name) == tool.name = name /\ tool.result.outcome = "return"

IsErrorOnly(v) == v.type = "dict" /\ DOMAIN v.items = {"error"}

\* some request the call made, or some file operation of it, failed
CallFailed ==
  IF tool.name = "get_stream_info"
  THEN \/ tool.io # "ok"
       \/ tool.file_before.exists /\ tool.file_before.content.kind = "garbage"
  ELSE \E i \in 1..tool.result.calls : ~ResponseOk(tool.env[i])

(***************************************************************************)
(* C4.  Whenever a request or a file operation inside a lookup tool fails, *)
(* the tool does not raise: it returns a mapping whose only key is error.  *)
(***************************************************************************)
C4_FailureIsErrorMapping ==
  (tool.name # "none" /\ CallFailed) =>
     /\ tool.result.outcome = "return"
     /\ IsErrorOnly(tool.result.value)

C4_Witness ==
  /\ tool.name = "get_twitch_user_info"
  /\ tool.result.calls = 5
  /\ CallFailed
  /\ IsErrorOnly(tool.result.value)

(***************************************************************************)
(* C7.  get_stream_info against the persisted document, when its file      *)
(* operations succeed: a call that finds no file writes the default        *)
(* document and answers from it, a call that finds a file leaves it as it  *)
(* is and answers from its content; without a category the whole document  *)
(* is returned, with a category that is a key of it the single-key mapping *)
(* {category: value}, and with any other category an {error: ...} mapping. *)
(***************************************************************************)
\* the document a call that found `file` (or created it) answers from
DocumentOf(file) ==
  IF file.exists THEN yaml_safe_load(file.content).value ELSE create_default_stream_info

KeysOf(doc) == IF doc.type = "dict" THEN DOMAIN doc.items ELSE {}

C7_StreamInfoByCategory ==
  (tool.name = "get_stream_info" /\ ~CallFailed) =>
    LET category == tool.args[1]
        doc == DocumentOf(tool.file_before)
        value == tool.result.value
    IN /\ tool.result.outcome = "return"
       /\ ~tool.file_before.exists =>
            /\ stream_file.exists
            /\ yaml_safe_load(stream_file.content) = Return(create_default_stream_info)
       /\ tool.file_before.exists => stream_file = tool.file_before
       /\ DocumentOf(stream_file) = doc
       /\ NoCategory(category) => value = doc
       /\ (~NoCategory(category) /\ category[1] \in KeysOf(doc)) =>
            /\ value.type = "dict"
            /\ DOMAIN value.items = {category[1]}
            /\ value.items[category[1]] = doc.items[category[1]]
       /\ (~NoCategory(category) /\ category[1] \notin KeysOf(doc)) =>
            IsErrorOnly(value)

\* a second call reads the file the first call created
C7_Witness ==
  /\ writes = 1
  /\ tool.name = "get_stream_info"
  /\ tool.file_before.exists
  /\ tool.io = "ok"
  /\ tool.args[1] = Some("schedule")
  /\ tool.result.value = Dict([schedule |-> Default_schedule])

(***************************************************************************)
(* C8.  As claimed: get_twitch_user_info composes a result only when every *)
(* one of its steps produced its data (a token, a user, channel metadata,  *)
(* the bot's own channel id, an answer to the follow check).               *)
(***************************************************************************)
ResultKeys ==
  {"username", "id", "profile_image", "account_created", "description",
   "broadcaster_type", "channel", "following_since", "is_following"}

\* the response carries at least one record under "data"
HasRecords(resp) ==
  /\ ResponseOk(resp)
  /\ resp.json.type = "dict"
  /\ "data" \in DOMAIN resp.json.items
  /\ Truthy(resp.json.items["data"])

IsComposed(v) == v.type = "dict" /\ DOMAIN v.items = ResultKeys

C8_ComposedOnlyWhenEveryStepProduced ==
  (Returned("get_twitch_user_info") /\ IsComposed(tool.result.value)) =>
     /\ tool.result.calls = 5
     /\ ResponseOk(tool.env[1])
     /\ HasRecords(tool.env[2])
     /\ HasRecords(tool.env[3])
     /\ HasRecords(tool.env[4])
     /\ ResponseOk(tool.env[5])

(***************************************************************************)
(* C8, amended.  get_twitch_user_info returns either {error: ...} or the   *)
(* composed result with all nine keys, never a part of it.  It returns     *)
(* {error: ...} whenever a request it makes fails; the composed result is  *)
(* returned only when every request made succeeded and a user was found,   *)
(* which includes the case of no channel record (channel is then {}) and   *)
(* the case of the bot's own channel not resolving (the follow check is    *)
(* then not made, following_since is null and is_following false).         *)
(***************************************************************************)
C8_ErrorOrComposed ==
  tool.name = "get_twitch_user_info" =>
    LET v == tool.result.value
        n == tool.result.calls
    IN /\ tool.result.outcome = "return"
       /\ IsErrorOnly(v) \/ IsComposed(v)
       /\ CallFailed => IsErrorOnly(v)
       /\ IsComposed(v) =>
            /\ n \in {4, 5}
            /\ \A i \in 1..n : ResponseOk(tool.env[i])
            /\ HasRecords(tool.env[2])
            /\ ~HasRecords(tool.env[3]) => v.items["channel"] = EmptyDict
            /\ n = 5 <=> HasRecords(tool.env[4])
            /\ n = 4 => /\ v.items["following_since"] = NoneValue
                        /\ v.items["is_following"] = Bool(FALSE)
            /\ v.items["is_following"] = Bool(v.items["following_since"] # NoneValue)

\* composed although the bot's own channel did not resolve and no channel record came
C8_Witness ==
  /\ Returned("get_twitch_user_info")
  /\ IsComposed(tool.result.value)
  /\ tool.result.calls = 4
  /\ tool.result.value.items["channel"] = EmptyDict

(***************************************************************************)
(* C9.  As claimed: on every path each lookup tool returns a mapping, and  *)
(* the mapping has the error key exactly when the call failed.             *)
(***************************************************************************)
HasErrorKey(v) == v.type = "dict" /\ "error" \in DOMAIN v.items

C9_AlwaysMapping ==
  tool.name # "none" =>
    /\ tool.result.outcome = "return"
    /\ tool.result.value.type = "dict"
    /\ CallFailed => HasErrorKey(tool.result.value)

(***************************************************************************)
(* C9, amended.  Every lookup tool returns a value on every path and never *)
(* raises; when a request or file operation failed the value is a mapping  *)
(* whose only key is error, and the error key never comes with other keys. *)
(* On success get_twitch_user_info returns a mapping, get_stream_info with *)
(* a category returns a mapping, get_lego_set_info returns the catalog's   *)
(* payload as received, get_stream_info without a category returns the     *)
(* loaded document as it is (null for an empty file, a sequence for a      *)
(* top-level list), and search_lego_sets returns a sequence of at most 5   *)
(* results: for it a mapping is returned only on failure.                  *)
(***************************************************************************)
IsPrefix(s, t) == Len(s) <= Len(t) /\ s = SubSeq(t, 1, Len(s))

C9_ValueOnEveryPath ==
  tool.name # "none" =>
    LET v == tool.result.value
    IN /\ tool.result.outcome = "return"
       /\ CallFailed => IsErrorOnly(v)
       /\ HasErrorKey(v) => IsErrorOnly(v)
       /\ tool.name = "get_twitch_user_info" => v.type = "dict"
       /\ tool.name = "get_lego_set_info" =>
            IF ResponseOk(tool.env[1]) THEN v = tool.env[1].json ELSE IsErrorOnly(v)
       /\ tool.name = "search_lego_sets" =>
            IF v.type = "dict" THEN IsErrorOnly(v)
            ELSE /\ v.type = "list"
                 /\ Len(v.items) <= 5
                 /\ ResponseOk(tool.env[1])
                 /\ LET json == tool.env[1].json
                    IN IF "results" \in DOMAIN json.items
                       THEN /\ IsPrefix(v.items, json.items["results"].items)
                            /\ Len(v.items) = 5 \/ v.items = json.items["results"].items
                       ELSE v.items = <<>>
       /\ tool.name = "get_stream_info" =>
            IF NoCategory(tool.args[1]) /\ ~CallFailed
            THEN v = DocumentOf(tool.file_before)
            ELSE v.type = "dict"

\* a successful search that returns a sequence, cut to 5 of the 6 results found
C9_Witness ==
  /\ Returned("search_lego_sets")
  /\ tool.result.value.type = "list"
  /\ Len(tool.result.value.items) = 5
  /\ Len(tool.env[1].json.items["results"].items) > 5

(***************************************************************************)
(* Texts of bot.py and agents.py, character by character.                  *)
(***************************************************************************)
\* the longest reply the model is let to give, and the longest error text
MaxReplyLen == 501
MaxErrorLen == 480
\* inbound events handled in one run
MaxHandled == 2

\* bot.py:47-48, Twitch's limit and the length kept before the ellipsis
TwitchLimit == 500
KeptLen == 497
Ellipsis ==
  <<".",".",".">>
BotName ==
  <<"b","r","i","c","k","n","p","l","a","t","e","b","o","t">>
ApologyPrefix ==
  <<"S","o","r","r","y",","," ","I"," ","e","n","c","o","u","n","t","e","r","e","d"," ","a","n",
  " ","e","r","r","o","r"," ","w","h","i","l","e"," ","p","r","o","c","e","s","s","i","n","g",
  " ","y","o","u","r"," ","m","e","s","s","a","g","e","!"," ","E","r","r","o","r",":"," ">>
\* what AgentExecutor answers when it stops at max_iterations
AgentStopped ==
  <<"A","g","e","n","t"," ","s","t","o","p","p","e","d"," ","d","u","e"," ","t","o"," ","i","t",
  "e","r","a","t","i","o","n"," ","l","i","m","i","t"," ","o","r"," ","t","i","m","e"," ","l",
  "i","m","i","t",".">>
ColonSpace ==
  <<":"," ">>
NoneText ==
  <<"N","o","n","e">>
Default1000 ==
  <<"1","0","0","0">>

Digits == <<"0","1","2","3","4","5","6","7","8","9">>

\* a text of n characters whose i-th character tells i modulo 10
Filler(n) == [i \in 1..n |-> Digits[(i % 10) + 1]]

RECURSIVE Join(_)
\* the concatenation of the parts of an f-string
Join(parts) == IF parts = <<>> THEN <<>> ELSE Head(parts) \o Join(Tail(parts))

RECURSIVE IntToText(_)
\* str(n) for n >= 0
IntToText(n) ==
  IF n < 10 THEN <<Digits[n + 1]>> ELSE IntToText(n \div 10) \o <<Digits[(n % 10) + 1]>>

UpperCase ==
  <<"A","B","C","D","E","F","G","H","I","J","K","L","M",
    "N","O","P","Q","R","S","T","U","V","W","X","Y","Z">>
LowerCase ==
  <<"a","b","c","d","e","f","g","h","i","j","k","l","m",
    "n","o","p","q","r","s","t","u","v","w","x","y","z">>

\* a lower() that leaves every character as it is
Lower_Identity(text) == text

\* str.lower()
Lower(text) ==
  [i \in 1..Len(text) |->
     IF \E k \in 1..26 : UpperCase[k] = text[i]
     THEN LowerCase[CHOOSE k \in 1..26 : UpperCase[k] = text[i]]
     ELSE text[i]]

\* `sub in text` for two strings
IsSubstring(sub, text) ==
  \E i \in 0..(Len(text) - Len(sub)) : SubSeq(text, i + 1, i + Len(sub)) = sub

\* a cut that keeps 500 characters and then adds the ellipsis
Truncate_Keep500(text) ==
  IF Len(text) > TwitchLimit THEN SubSeq(text, 1, TwitchLimit) \o Ellipsis ELSE text

\* bot.py:47-48 (and 65-66, 92-93, 110-111)
Truncate(text) ==
  IF Len(text) > TwitchLimit THEN SubSeq(text, 1, KeptLen) \o Ellipsis ELSE text

(***************************************************************************)
(* agents.py: the two executors and the dispatch loop AgentExecutor runs.  *)
(***************************************************************************)
AllTools == {"get_lego_set_info", "search_lego_sets", "get_twitch_user_info", "get_stream_info"}

\* an event executor given the chat executor's cap
create_event_agent_ChatCap ==
  [kind |-> "event", tools |-> {"get_stream_info"}, memory |-> <<>>, max_iterations |-> 3]

\* agents.py:16-68: all four tools, a fresh ConversationBufferMemory, max_iterations=3
create_chat_agent ==
  [kind |-> "chat", tools |-> AllTools, memory |-> <<>>, max_iterations |-> 3]

\* agents.py:70-121: get_bot_tools()[3:], no memory, max_iterations=2
create_event_agent ==
  [kind |-> "event", tools |-> {"get_stream_info"}, memory |-> <<>>, max_iterations |-> 2]

NoAgent == [kind |-> "none"]

\* agent_executor.ainvoke({"input": input}) has just been called
Invoke(executor, input) ==
  [kind |-> executor.kind, tools |-> executor.tools, memory |-> executor.memory,
   max_iterations |-> executor.max_iterations, input |-> input,
   pc |-> "awaiting_model_decision", iterations |-> 0, decisions |-> 0,
   scratchpad |-> <<>>, pending |-> None, output |-> <<>>, error |-> <<>>]

Human(text) == [role |-> "human", content |-> text]
Ai(text) == [role |-> "ai", content |-> text]

\* the prompt the model is given: chat_history (chat executor only), the input,
\* the agent_scratchpad
Context(ag) ==
  [chat_history |-> ag.memory, input |-> Human(ag.input), agent_scratchpad |-> ag.scratchpad]

\* memory.save_context at the end of a run; the event executor has no memory
SaveContext(ag, output) ==
  IF ag.kind = "chat" THEN ag.memory \o <<Human(ag.input), Ai(output)>> ELSE ag.memory

\* the loop goes on while iterations < max_iterations
ShouldContinue(ag) == ag.iterations < ag.max_iterations

Running(ag) == ag.kind # "none" /\ ag.pc \in {"awaiting_model_decision", "execute_tool"}
Finished(ag) == ag.kind # "none" /\ ag.pc \in {"final_answer", "raised"}

Hi ==
  <<"H","i","!"," ","H","a","p","p","y"," ","b","u","i","l","d","i","n","g","!">>
Timeout ==
  <<"R","e","q","u","e","s","t"," ","t","i","m","e","d"," ","o","u","t",".">>
ValidationError ==
  <<"1"," ","v","a","l","i","d","a","t","i","o","n"," ","e","r","r","o","r"," ","f","o","r"," ",
  "L","e","g","o","S","e","t","I","n","p","u","t">>

\* what the model may answer: a short reply, one of exactly 500 characters, a longer one
ModelReplies == {Hi, Filler(TwitchLimit), Filler(MaxReplyLen)}

\* what a failing model call may say
ModelErrors == {Timeout, Filler(MaxErrorLen)}

\* the tool calls the model may ask for; the last one lacks its argument
ToolCalls ==
  { [name |-> "get_lego_set_info", args |-> <<"75192">>, valid |-> TRUE],
    [name |-> "get_stream_info", args |-> <<None>>, valid |-> TRUE],
    [name |-> "get_lego_set_info", args |-> <<>>, valid |-> FALSE] }

\* the responses the services give while a dispatch runs
DispatchLegoSetResponses == {ConnectionFailed}

\* the outcomes a tool call of the dispatch loop may have, each with the file it leaves
ToolOutcomes(call, file) ==
  CASE call.name = "get_lego_set_info" ->
         { [r |-> get_lego_set_info(call.args[1], resp), file |-> file, wrote |-> 0]
           : resp \in DispatchLegoSetResponses }
    [] OTHER -> { get_stream_info(call.args[1], file, "ok") }

(***************************************************************************)
(* process_chat_message and process_event                                  *)
(***************************************************************************)
Subscription ==
  <<"s","u","b","s","c","r","i","p","t","i","o","n">>
Resub ==
  <<"r","e","s","u","b">>
Raid ==
  <<"r","a","i","d">>

DText(chars) == [type |-> "str", chars |-> chars]

\* str(v) inside an f-string
Format(v) ==
  CASE v.type = "str" -> v.chars
    [] v.type = "int" -> IntToText(v.value)
    [] OTHER -> NoneText

\* bool(v)
TruthyDetail(v) ==
  CASE v.type = "str" -> v.chars # <<>>
    [] v.type = "int" -> v.value # 0
    [] OTHER -> FALSE

\* details.get(key, default)
DetailGet(details, key, default) ==
  IF key \in DOMAIN details THEN details[key] ELSE default

\* agents.py:126
FormattedMessage(username, message) == Join(<<username, ColonSpace, message>>)

HasSubscribedWithTier ==
  <<" ","h","a","s"," ","s","u","b","s","c","r","i","b","e","d"," ","w","i","t","h"," ","t","i",
  "e","r"," ">>
HasResubscribedFor ==
  <<" ","h","a","s"," ","r","e","s","u","b","s","c","r","i","b","e","d"," ","f","o","r"," ">>
MonthsWithTier ==
  <<" ","m","o","n","t","h","s"," ","w","i","t","h"," ","t","i","e","r"," ">>
HasRaidedWith ==
  <<" ","h","a","s"," ","r","a","i","d","e","d"," ","t","h","e"," ","c","h","a","n","n","e","l",
  " ","w","i","t","h"," ">>
ViewersDot ==
  <<" ","v","i","e","w","e","r","s",".">>
TriggeredEvent ==
  <<" ","t","r","i","g","g","e","r","e","d"," ","a","n"," ","e","v","e","n","t"," ","o","f"," ",
  "t","y","p","e"," ">>
Dot ==
  <<".">>
GenerateFor ==
  <<" ","G","e","n","e","r","a","t","e"," ","a"," ","p","e","r","s","o","n","a","l","i","z","e",
  "d"," ","t","h","a","n","k"," ","y","o","u"," ","m","e","s","s","a","g","e"," ","f","o","r",
  " ","t","h","i","s"," ">>
EventMakeIt ==
  <<" ","e","v","e","n","t","."," ","M","a","k","e"," ","i","t"," ","b","r","i","e","f",","," ",
  "e","n","t","h","u","s","i","a","s","t","i","c",","," ","a","n","d"," ","L","e","g","o","-",
  "t","h","e","m","e","d",".">>

\* agents.py:141-148
EventDescription(event_type, username, details) ==
  CASE event_type = Subscription ->
         Join(<<username, HasSubscribedWithTier,
                Format(DetailGet(details, "tier", DText(Default1000))), Dot>>)
    [] event_type = Resub ->
         Join(<<username, HasResubscribedFor,
                Format(DetailGet(details, "months", IntValue(1))), MonthsWithTier,
                Format(DetailGet(details, "tier", DText(Default1000))), Dot>>)
    [] event_type = Raid ->
         Join(<<username, HasRaidedWith,
                Format(DetailGet(details, "viewers", IntValue(0))), ViewersDot>>)
    [] OTHER -> Join(<<username, TriggeredEvent, event_type, Dot>>)

\* agents.py:151
EventPrompt(event_type, username, details) ==
  Join(<<EventDescription(event_type, username, details), GenerateFor, event_type,
         EventMakeIt>>)

ThanksForRaid ==
  <<"T","h","a","n","k","s"," ","f","o","r"," ","t","h","e"," ","a","m","a","z","i","n","g"," ",
  "r","a","i","d",","," ">>
CommaWith ==
  <<","," ","w","i","t","h"," ">>
ViewersWelcome ==
  <<" ","v","i","e","w","e","r","s","!"," ","W","e","l","c","o","m","e"," ","t","o"," ","o","u",
  "r"," ","b","r","i","c","k","-","b","u","i","l","d","i","n","g"," ","a","d","v","e","n","t",
  "u","r","e","!">>
ThanksForThe ==
  <<"T","h","a","n","k","s"," ","f","o","r"," ","t","h","e"," ">>
DashMonth ==
  <<"-","m","o","n","t","h"," ">>
SubComma ==
  <<"s","u","b",","," ">>
EssentialPiece ==
  <<"!"," ","Y","o","u","'","r","e"," ","a","n"," ","e","s","s","e","n","t","i","a","l"," ","p",
  "i","e","c","e"," ","i","n"," ","o","u","r"," ","c","o","m","m","u","n","i","t","y","!">>
ThanksComma ==
  <<"T","h","a","n","k","s",","," ">>
YoureAwesome ==
  <<"!"," ","Y","o","u","'","r","e"," ","a","w","e","s","o","m","e","!">>

\* agents.py:160-166
FallbackMessage(event_type, username, details) ==
  IF event_type = Raid
  THEN Join(<<ThanksForRaid, username, CommaWith,
              Format(DetailGet(details, "viewers", IntValue(0))), ViewersWelcome>>)
  ELSE IF event_type \in {Subscription, Resub}
  THEN LET months ==
             IF event_type = Resub /\ TruthyDetail(DetailGet(details, "months", NoneValue))
             THEN Format(DetailGet(details, "months", IntValue(1))) \o DashMonth
             ELSE <<>>
       IN Join(<<ThanksForThe, months, SubComma, username, EssentialPiece>>)
  ELSE Join(<<ThanksComma, username, YoureAwesome>>)

\* process_chat_message without its try/except
process_chat_message_NoExcept(ag) ==
  IF ag.pc = "raised" THEN [outcome |-> "raise", error |-> ag.error]
  ELSE [outcome |-> "return", value |-> ag.output]

\* agents.py:128-133: what process_chat_message hands back once ainvoke has ended
process_chat_message(ag) ==
  IF ag.pc = "raised"
  THEN [outcome |-> "return", value |-> ApologyPrefix \o ag.error]
  ELSE [outcome |-> "return", value |-> ag.output]

\* agents.py:153-166: what process_event hands back once ainvoke has ended
process_event(ag, event_type, username, details) ==
  IF ag.pc = "raised"
  THEN [outcome |-> "return", value |-> FallbackMessage(event_type, username, details)]
  ELSE [outcome |-> "return", value |-> ag.output]

(***************************************************************************)
(* bot.py: the handlers.  A handler runs up to its await of the dispatch,  *)
(* the dispatch loop takes its steps, and the handler then truncates the   *)
(* text it got back and sends it.                                          *)
(***************************************************************************)
HeyBot ==
  <<"H","e","y"," ","B","r","i","c","k","N","P","l","a","t","e","B","o","t",","," ","w","h","a",
  "t"," ","i","s"," ","s","e","t"," ","7","5","1","9","2","?">>
NoMention ==
  <<"b","r","i","c","k"," ","n"," ","p","l","a","t","e"," ","b","o","t",","," ","a","n","y","o",
  "n","e","?">>
EchoText ==
  <<"I"," ","a","m"," ","B","r","i","c","k","N","P","l","a","t","e","B","o","t","!">>

\* message.echo, message.author.name, message.content
Messages ==
  { [echo |-> FALSE, author |-> Alice, content |-> HeyBot],
    [echo |-> FALSE, author |-> Bob, content |-> NoMention],
    [echo |-> TRUE, author |-> BotName, content |-> EchoText] }

SubscribeEvents == { [user |-> Alice, sub_plan |-> Tier1000] }

\* event.message may be absent
ResubEvents ==
  { [user |-> Bob, sub_plan |-> Tier3000, cumulative_months |-> 3,
     message |-> Some(<<"h","i">>)],
    [user |-> Alice, sub_plan |-> Tier1000, cumulative_months |-> 0, message |-> None] }

RaidEvents == { [raider |-> Alice, viewers |-> 5] }

Idle == bot.pc = "idle" /\ bot.handled < MaxHandled

\* the handler has started: what it is, its event, the process_* call it awaits;
\* response and error will tell what that call handed back and what exception,
\* if any, ended the dispatch
Handling(handler, event, call) ==
  [pc |-> "dispatching", handled |-> bot.handled + 1, handler |-> handler,
   event |-> event, call |-> call, dispatched |-> 1, sent_before |-> Len(sent),
   response |-> None, error |-> None]

\* the handler returned without a dispatch
Ignored(handler, event) ==
  [pc |-> "idle", handled |-> bot.handled + 1, handler |-> handler,
   event |-> event, call |-> None, dispatched |-> 0, sent_before |-> Len(sent),
   response |-> None, error |-> None]

\* bot.py:34-44, up to the await of process_chat_message
event_message ==
  /\ Idle
  /\ \E message \in Messages :
       IF message.echo
       THEN bot' = Ignored("event_message", message) /\ agent' = agent
       ELSE LET content == Lower(message.content)
            IN IF IsSubstring(BotName, content)
               THEN /\ bot' = Handling("event_message", message, None)
                    /\ agent' = Invoke(create_chat_agent,
                                       FormattedMessage(message.author, message.content))
               ELSE bot' = Ignored("event_message", message) /\ agent' = agent
  /\ UNCHANGED <<eventVars, toolVars, sent, chatLog>>

\* agents.py:137-154: process_event up to its await of ainvoke
StartEvent(handler, event, event_type, username, details) ==
  /\ bot' = Handling(handler, event,
                     Some([event_type |-> event_type, username |-> username,
                           details |-> details]))
  /\ agent' = Invoke(create_event_agent, EventPrompt(event_type, username, details))

\* bot.py:52-62
event_subscribe ==
  /\ Idle
  /\ \E event \in SubscribeEvents :
       /\ add_subscriber(event.user, Some(event.sub_plan), None, None)
       /\ StartEvent("event_subscribe", event, Subscription, event.user,
                     [tier |-> DText(event.sub_plan)])
  /\ UNCHANGED <<toolVars, sent, chatLog>>

\* bot.py:70-89
event_resub ==
  /\ Idle
  /\ \E event \in ResubEvents :
       LET text == IF event.message # None THEN event.message[1] ELSE <<>>
       IN /\ add_subscriber(event.user, Some(event.sub_plan),
                            Some(event.cumulative_months), Some(text))
          /\ StartEvent("event_resub", event, Resub, event.user,
                        [months |-> IntValue(event.cumulative_months),
                         tier |-> DText(event.sub_plan),
                         message |-> DText(text)])
  /\ UNCHANGED <<toolVars, sent, chatLog>>

\* a raid handler that greets the raiders without recording the raid
event_raid_NoRecord ==
  /\ Idle
  /\ \E event \in RaidEvents :
       StartEvent("event_raid", event, Raid, event.raider,
                  [viewers |-> IntValue(event.viewers)])
  /\ UNCHANGED <<eventVars, toolVars, sent, chatLog>>

\* bot.py:97-107
event_raid ==
  /\ Idle
  /\ \E event \in RaidEvents :
       /\ add_raider(event.raider, event.viewers)
       /\ StartEvent("event_raid", event, Raid, event.raider,
                     [viewers |-> IntValue(event.viewers)])
  /\ UNCHANGED <<toolVars, sent, chatLog>>

(***************************************************************************)
(* The dispatch loop: awaiting_model_decision, then a tool call and its    *)
(* execution and back, or the final answer; an exception ends the run.     *)
(***************************************************************************)
InvalidResponse ==
  <<"I","n","v","a","l","i","d"," ","o","r"," ","i","n","c","o","m","p","l","e","t","e"," ","r",
  "e","s","p","o","n","s","e">>

ModelDecides ==
  /\ agent.kind # "none"
  /\ agent.pc = "awaiting_model_decision"
  /\ ShouldContinue(agent)
  /\ \/ \E text \in ModelReplies :
          agent' = [agent EXCEPT !.pc = "final_answer", !.output = text,
                                 !.memory = SaveContext(agent, text),
                                 !.decisions = @ + 1]
     \/ \E call \in ToolCalls :
          /\ call.name \in agent.tools
          /\ agent' = [agent EXCEPT !.pc = "execute_tool", !.pending = Some(call),
                                    !.decisions = @ + 1]
     \/ \* handle_parsing_errors=True: the malformed answer is fed back
        agent' = [agent EXCEPT !.scratchpad =
                                  Append(@, [action |-> [name |-> "_Exception",
                                                         args |-> <<>>,
                                                         valid |-> TRUE],
                                             observation |-> DText(InvalidResponse)]),
                               !.iterations = @ + 1, !.decisions = @ + 1]
     \/ \E e \in ModelErrors :
          agent' = [agent EXCEPT !.pc = "raised", !.error = e, !.decisions = @ + 1]
  /\ UNCHANGED <<eventVars, toolVars, bot, sent, chatLog>>

ExecuteTool ==
  /\ agent.kind # "none"
  /\ agent.pc = "execute_tool"
  /\ LET call == agent.pending[1]
     IN IF ~call.valid
        THEN /\ agent' = [agent EXCEPT !.pc = "raised", !.error = ValidationError,
                                       !.pending = None]
             /\ UNCHANGED <<stream_file, writes>>
        ELSE \E t \in ToolOutcomes(call, stream_file) :
               /\ agent' = [agent EXCEPT !.pc = "awaiting_model_decision",
                                         !.pending = None,
                                         !.scratchpad =
                                            Append(@, [action |-> call,
                                                       observation |-> t.r.value]),
                                         !.iterations = @ + 1]
               /\ stream_file' = t.file
               /\ writes' = writes + t.wrote
  /\ UNCHANGED <<eventVars, tool, in_flight, bot, sent, chatLog>>

\* max_iterations reached: the executor stops with its fixed answer
StopAtCap ==
  /\ agent.kind # "none"
  /\ agent.pc = "awaiting_model_decision"
  /\ ~ShouldContinue(agent)
  /\ agent' = [agent EXCEPT !.pc = "final_answer", !.output = AgentStopped,
                            !.memory = SaveContext(agent, AgentStopped)]
  /\ UNCHANGED <<eventVars, toolVars, bot, sent, chatLog>>

\* what the awaited process_* call hands to its handler
Dispatched ==
  IF bot.handler = "event_message"
  THEN process_chat_message(agent)
  ELSE process_event(agent, bot.call[1].event_type, bot.call[1].username,
                     bot.call[1].details)

\* bot.py:46-50, 64-68, 91-95, 109-113: the dispatch is over, the handler goes on
Reply ==
  /\ bot.pc = "dispatching"
  /\ Finished(agent)
  /\ LET r == Dispatched
     IN IF r.outcome = "raise"
        THEN /\ bot' = [bot EXCEPT !.pc = "crashed"]
             /\ UNCHANGED <<sent, chatLog>>
        ELSE /\ bot' = [bot EXCEPT !.pc = "idle", !.response = Some(r.value),
                                   !.error = IF agent.pc = "raised"
                                             THEN Some(agent.error) ELSE None]
             /\ sent' = Append(sent, Truncate(r.value))
             /\ chatLog' = IF bot.handler = "event_message"
                           THEN Append(chatLog, [input |-> agent.input, output |-> r.value])
                           ELSE chatLog
  /\ agent' = NoAgent
  /\ UNCHANGED <<eventVars, toolVars>>

\* the bot has run before: the stream file is there, with the default document
Init ==
  /\ recent_events = [subscribers |-> <<>>, raiders |-> <<>>]
  /\ now = 0
  /\ appended = [subscribers |-> <<>>, raiders |-> <<>>]
  /\ stream_file = Present(yaml_dump(create_default_stream_info))
  /\ writes = 0
  /\ tool = [name |-> "none"]
  /\ in_flight = <<>>
  /\ bot = [pc |-> "idle", handled |-> 0]
  /\ agent = NoAgent
  /\ sent = <<>>
  /\ chatLog = <<>>

DispatchStep == ModelDecides \/ ExecuteTool \/ StopAtCap \/ Reply

Next ==
  \/ event_message
  \/ event_subscribe
  \/ event_resub
  \/ event_raid
  \/ ModelDecides
  \/ ExecuteTool
  \/ StopAtCap
  \/ Reply

Spec == Init /\ [][Next]_vars

(***************************************************************************)
(* C2.  Every text handed to channel.send by the four handlers has at most *)
(* 500 characters: a reply of at most 500 characters is sent as it is, a   *)
(* longer one as its first 497 characters followed by "...".               *)
(***************************************************************************)
\* a handler has run to its end
Handled(handler) == bot.pc = "idle" /\ bot.handled > 0 /\ bot.handler = handler

Handlers == {"event_message", "event_subscribe", "event_resub", "event_raid"}

C2_SentWithinLimit ==
  /\ \A i \in 1..Len(sent) : Len(sent[i]) <= 500
  /\ \A h \in Handlers :
       (Handled(h) /\ bot.response # None) =>
          LET reply == bot.response[1]
              text == sent[Len(sent)]
          IN IF Len(reply) <= 500 THEN text = reply
             ELSE /\ Len(text) = 500
                  /\ \A i \in 1..497 : text[i] = reply[i]
                  /\ text[498] = "." /\ text[499] = "." /\ text[500] = "."

\* a raid answered by a reply of more than 500 characters, sent cut to 500
C2_Witness ==
  /\ Handled("event_raid")
  /\ bot.response # None
  /\ Len(bot.response[1]) > 500
  /\ Len(sent[Len(sent)]) = 500

(***************************************************************************)
(* C3.  Every dispatch ends: the chat dispatcher takes at most 3 model     *)
(* decisions and runs at most 3 tools, the event dispatcher at most 2.     *)
(* Termination is stated as its proof rule: while a dispatch is under way  *)
(* a dispatch step is always possible, every step of the loop strictly     *)
(* lowers the number of steps the cap leaves, which is never negative,     *)
(* at the cap the only step is the forced final answer with its text, and  *)
(* the step that ends a dispatch hands a text back to the handler, also    *)
(* when the model asks for a tool at every decision.                       *)
(***************************************************************************)
C3_Cap(ag) == IF ag.kind = "chat" THEN 3 ELSE 2

C3_WithinCap ==
  agent.kind # "none" =>
    /\ agent.decisions <= C3_Cap(agent)
    /\ agent.iterations <= C3_Cap(agent)
    /\ Len(agent.scratchpad) <= C3_Cap(agent)

\* the steps the loop can still take: two for every remaining iteration (a
\* decision and a tool run) and the decision that ends it
C3_StepsLeft(ag) ==
  CASE ag.pc = "awaiting_model_decision" -> 2 * (C3_Cap(ag) - ag.iterations) + 1
    [] ag.pc = "execute_tool" -> 2 * (C3_Cap(ag) - ag.iterations)
    [] OTHER -> 0

C3_StepLowers ==
  (agent.kind # "none" /\ agent' # agent) =>
     IF agent'.kind = "none"
     THEN /\ agent.pc \in {"final_answer", "raised"}
          /\ bot'.pc = "idle"
          /\ bot'.response # None
          /\ Len(bot'.response[1]) > 0
     ELSE /\ C3_StepsLeft(agent') < C3_StepsLeft(agent)
          /\ C3_StepsLeft(agent') >= 0

C3_ForcedFinalAtCap ==
  (/\ agent.kind # "none"
   /\ agent.pc = "awaiting_model_decision"
   /\ agent.iterations = C3_Cap(agent))
  => (agent'.pc = "final_answer" /\ Len(agent'.output) > 0)

C3_DispatchTerminates ==
  /\ [](C3_WithinCap /\ (bot.pc = "dispatching" => ENABLED DispatchStep))
  /\ [][C3_StepLowers /\ C3_ForcedFinalAtCap]_vars

\* the chat model asked for a tool three times and the loop was ended at the cap
C3_Witness ==
  /\ agent.kind = "chat"
  /\ agent.pc = "final_answer"
  /\ agent.decisions = 3
  /\ Len(agent.scratchpad) = 3
  /\ \A i \in 1..3 : agent.scratchpad[i].action.name \in agent.tools
  /\ agent.output = AgentStopped


(***************************************************************************)
(* C5.  An exception that ends a dispatch never reaches the handler:       *)
(* process_event then returns the thank-you its template gives for the     *)
(* event_type, username and details of the call, and process_chat_message  *)
(* returns an apology that carries the error string.                       *)
(***************************************************************************)
C5_ThanksSubAlice ==
  <<"T","h","a","n","k","s"," ","f","o","r"," ","t","h","e"," ","s","u","b",","," ","a","l","i",
  "c","e","!"," ","Y","o","u","'","r","e"," ","a","n"," ","e","s","s","e","n","t","i","a","l",
  " ","p","i","e","c","e"," ","i","n"," ","o","u","r"," ","c","o","m","m","u","n","i","t","y",
  "!">>
C5_ThanksResubBob3 ==
  <<"T","h","a","n","k","s"," ","f","o","r"," ","t","h","e"," ","3","-","m","o","n","t","h"," ",
  "s","u","b",","," ","B","o","b","!"," ","Y","o","u","'","r","e"," ","a","n"," ","e","s","s",
  "e","n","t","i","a","l"," ","p","i","e","c","e"," ","i","n"," ","o","u","r"," ","c","o","m",
  "m","u","n","i","t","y","!">>
C5_ThanksRaidAlice5 ==
  <<"T","h","a","n","k","s"," ","f","o","r"," ","t","h","e"," ","a","m","a","z","i","n","g"," ",
  "r","a","i","d",","," ","a","l","i","c","e",","," ","w","i","t","h"," ","5"," ","v","i","e",
  "w","e","r","s","!"," ","W","e","l","c","o","m","e"," ","t","o"," ","o","u","r"," ","b","r",
  "i","c","k","-","b","u","i","l","d","i","n","g"," ","a","d","v","e","n","t","u","r","e","!">>
C5_Sorry ==
  <<"S","o","r","r","y",","," ","I"," ","e","n","c","o","u","n","t","e","r","e","d"," ","a","n",
  " ","e","r","r","o","r">>

\* the thank-you expected for the call the handler made
C5_ExpectedThanks(call) ==
  CASE call.event_type = Raid /\ call.username = Alice /\ call.details.viewers.value = 5 ->
         C5_ThanksRaidAlice5
    [] call.event_type = Resub /\ call.username = Bob /\ call.details.months.value = 3 ->
         C5_ThanksResubBob3
    [] call.event_type = Resub /\ call.username = Alice /\ call.details.months.value = 0 ->
         C5_ThanksSubAlice
    [] call.event_type = Subscription /\ call.username = Alice ->
         C5_ThanksSubAlice

C5_CarriesError(response, error) ==
  /\ Len(response) > Len(error) + Len(C5_Sorry)
  /\ SubSeq(response, 1, Len(C5_Sorry)) = C5_Sorry
  /\ SubSeq(response, Len(response) - Len(error) + 1, Len(response)) = error

\* the dispatch of the running handler ended with an exception
C5_DispatchRaised == bot.handled > 0 /\ bot.dispatched = 1 /\ bot.error # None

C5_ErrorsBecomeText ==
  /\ bot.pc # "crashed"
  /\ (bot.pc = "dispatching" /\ agent.pc = "raised") => Dispatched.outcome = "return"
  /\ C5_DispatchRaised =>
       /\ bot.pc = "idle"
       /\ bot.response # None
       /\ IF bot.handler = "event_message"
          THEN C5_CarriesError(bot.response[1], bot.error[1])
          ELSE bot.response[1] = C5_ExpectedThanks(bot.call[1])

\* a resubscription of 3 months whose dispatch failed was answered by the template
C5_Witness ==
  /\ C5_DispatchRaised
  /\ bot.handler = "event_resub"
  /\ bot.response = Some(C5_ThanksResubBob3)
  /\ sent[Len(sent)] = C5_ThanksResubBob3

(***************************************************************************)
(* C6.  The chat dispatcher keeps the conversation: the context the model  *)
(* is given on a call of process_chat_message holds the inputs and replies *)
(* of all earlier calls, while the context of a process_event call holds   *)
(* no earlier message.                                                     *)
(***************************************************************************)
C6_Holds(history, message) == \E j \in 1..Len(history) : history[j] = message

C6_ChatRemembersEarlierCalls ==
  /\ (agent.kind = "chat" /\ agent.pc = "awaiting_model_decision") =>
        \A i \in 1..Len(chatLog) :
           /\ C6_Holds(Context(agent).chat_history, Human(chatLog[i].input))
           /\ C6_Holds(Context(agent).chat_history, Ai(chatLog[i].output))
  /\ agent.kind = "event" => Context(agent).chat_history = <<>>

(***************************************************************************)
(* C10.  event_message calls the chat dispatcher and sends a reply only    *)
(* for a message that is not the bot's own echo and names the bot, in any  *)
(* letter case: such a message gets one dispatch and exactly one send, an  *)
(* echo or a message without the name gets no dispatch and no send.        *)
(***************************************************************************)
\* of the messages received, the one that is not an echo and names the bot
C10_Engaging(message) == ~message.echo /\ message.content = HeyBot

C10_Sends == Len(sent) - bot.sent_before

C10_OnlyEngagingMessagesAnswered ==
  (bot.handled > 0 /\ bot.handler = "event_message") =>
     /\ bot.pc = "dispatching" =>
          C10_Engaging(bot.event) /\ agent.kind = "chat" /\ C10_Sends = 0
     /\ bot.pc = "idle" =>
          IF C10_Engaging(bot.event)
          THEN bot.dispatched = 1 /\ bot.response # None /\ C10_Sends = 1
          ELSE bot.dispatched = 0 /\ bot.response = None /\ C10_Sends = 0
                 /\ agent.kind = "none"

\* the message naming the bot in mixed case was dispatched and answered once
C10_Witness ==
  /\ bot.handled > 0 /\ bot.handler = "event_message" /\ bot.pc = "idle"
  /\ bot.event.content = HeyBot
  /\ bot.dispatched = 1
  /\ C10_Sends = 1

(***************************************************************************)
(* get_stream_info under in-flight dispatches.  The tool is a plain        *)
(* function (tools.py:249, func=), and a dispatch started with ainvoke     *)
(* runs it on a worker thread, so the calls of dispatches in flight run    *)
(* side by side and interleave between their file operations: the test     *)
(* os.path.exists, the open for reading with yaml.safe_load, the open for  *)
(* writing (which empties the file at once) and yaml.dump with the close   *)
(* that puts the document on disk.                                         *)
(***************************************************************************)
\* dispatches in flight at once
MaxInFlight == 2

Workers == 1..MaxInFlight

\* the categories the calls in flight ask for
InFlightCategories == {None, Some("schedule")}

\* a worker that has no call yet
Ready == [pc |-> "ready", category |-> None, stream_info |-> None, result |-> None]

\* the dispatcher hands get_stream_info(category) to worker w
BeginCall(w) ==
  /\ in_flight[w].pc = "ready"
  /\ \E category \in InFlightCategories :
       in_flight' = [in_flight EXCEPT ![w] = [Ready EXCEPT !.pc = "exists",
                                                         !.category = category]]
  /\ UNCHANGED <<stream_file, writes>>

\* line 159: os.path.exists(STREAM_INFO_FILE)
PathExists(w) ==
  /\ in_flight[w].pc = "exists"
  /\ in_flight' = [in_flight EXCEPT ![w].pc = IF stream_file.exists THEN "read" ELSE "create"]
  /\ UNCHANGED <<stream_file, writes>>

\* lines 160-161, read of the file as it is now, then lines 171-181
ReadFile(w) ==
  /\ in_flight[w].pc = "read"
  /\ LET loaded == LoadStreamInfo(stream_file, "ok")
         t == get_stream_info(in_flight[w].category, stream_file, "ok")
     IN in_flight' = [in_flight EXCEPT ![w].pc = "returned",
                                       ![w].stream_info = Some(loaded.r),
                                       ![w].result = Some(t.r)]
  /\ UNCHANGED <<stream_file, writes>>

\* lines 164-166: the default document, and open(STREAM_INFO_FILE, 'w'),
\* which creates the file or empties the one another call has made meanwhile
OpenForWriting(w) ==
  /\ in_flight[w].pc = "create"
  /\ in_flight' = [in_flight EXCEPT ![w].pc = "dump",
                                    ![w].stream_info =
                                       Some(Return(create_default_stream_info))]
  /\ stream_file' = Present(EmptyText)
  /\ writes' = writes + 1

\* lines 167-169, the document reaches the file, then lines 171-181
DumpAndClose(w) ==
  /\ in_flight[w].pc = "dump"
  /\ LET t == get_stream_info(in_flight[w].category, Absent, "ok")
     IN /\ in_flight' = [in_flight EXCEPT ![w].pc = "returned", ![w].result = Some(t.r)]
        /\ stream_file' = t.file
  /\ UNCHANGED writes

InitInFlight ==
  /\ recent_events = [subscribers |-> <<>>, raiders |-> <<>>]
  /\ now = 0
  /\ appended = [subscribers |-> <<>>, raiders |-> <<>>]
  /\ stream_file \in {Absent, Present(yaml_dump(create_default_stream_info))}
  /\ writes = 0
  /\ tool = [name |-> "none"]
  /\ in_flight = [w \in Workers |-> Ready]
  /\ bot = [pc |-> "idle", handled |-> 0]
  /\ agent = NoAgent
  /\ sent = <<>>
  /\ chatLog = <<>>

BeginCalls == \E w \in Workers : BeginCall(w) /\ UNCHANGED <<eventVars, tool, botVars>>
PathExistsSteps == \E w \in Workers : PathExists(w) /\ UNCHANGED <<eventVars, tool, botVars>>
ReadFileSteps == \E w \in Workers : ReadFile(w) /\ UNCHANGED <<eventVars, tool, botVars>>
OpenForWritingSteps ==
  \E w \in Workers : OpenForWriting(w) /\ UNCHANGED <<eventVars, tool, botVars>>
DumpAndCloseSteps == \E w \in Workers : DumpAndClose(w) /\ UNCHANGED <<eventVars, tool, botVars>>

NextInFlight ==
  \/ BeginCalls
  \/ PathExistsSteps
  \/ ReadFileSteps
  \/ OpenForWritingSteps
  \/ DumpAndCloseSteps

SpecInFlight == InitInFlight /\ [][NextInFlight]_vars

(***************************************************************************)
(* C11.  However the get_stream_info calls of dispatches in flight         *)
(* interleave, the bot opens the document for writing at most once, every  *)
(* call loads the whole document (never a missing, empty or partly written *)
(* one) and every call returns content of that same document.              *)
(***************************************************************************)
C11_Loaded(w) == in_flight[w].stream_info # None
C11_Returned(w) == in_flight[w].result # None

C11_WriteOnceSameDocument ==
  /\ writes <= 1
  /\ \A w \in Workers :
       C11_Loaded(w) => in_flight[w].stream_info[1] = Return(create_default_stream_info)
  /\ \A w \in Workers :
       C11_Returned(w) =>
          in_flight[w].result[1] =
             IF in_flight[w].category = None
             THEN Return(create_default_stream_info)
             ELSE Return(Dict("schedule" :> Default_schedule))

(***************************************************************************)
(* C12.  A subscribe, resub or raid event is in its recent-event list when *)
(* the event dispatcher is invoked; a subscribe or resub changes only the  *)
(* subscribers list, a raid only the raiders list, and no other step       *)
(* changes either; and exactly one message is sent for the event, whether  *)
(* the dispatch gave a reply or fell back.                                 *)
(***************************************************************************)
C12_SubHandlers == {"event_subscribe", "event_resub"}
C12_EventHandlers == C12_SubHandlers \cup {"event_raid"}

C12_Last(list) == list[Len(list)]

\* the list has grown by one entry at its end (the oldest leaves a full list)
C12_Appended(old, new) ==
  /\ Len(new) > 0
  /\ Len(old) < 10 => Len(new) = Len(old) + 1 /\ SubSeq(new, 1, Len(old)) = old
  /\ Len(old) = 10 => Len(new) = 10 /\ SubSeq(new, 1, 9) = SubSeq(old, 2, 10)

\* while the dispatcher runs, the event is the newest entry of its list
C12_RecordedBeforeDispatch ==
  (bot.pc = "dispatching" /\ bot.handler \in C12_EventHandlers) =>
     /\ agent.kind = "event"
     /\ Len(sent) = bot.sent_before
     /\ IF bot.handler = "event_raid"
        THEN /\ Len(recent_events.raiders) > 0
             /\ C12_Last(recent_events.raiders).username = bot.event.raider
             /\ C12_Last(recent_events.raiders).viewers = bot.event.viewers
        ELSE /\ Len(recent_events.subscribers) > 0
             /\ C12_Last(recent_events.subscribers).username = bot.event.user
             /\ C12_Last(recent_events.subscribers).tier = Some(bot.event.sub_plan)

\* the handler is over: one message, by reply or by fallback
C12_OneMessage ==
  (bot.pc = "idle" /\ bot.handled > 0 /\ bot.handler \in C12_EventHandlers) =>
     /\ bot.response # None
     /\ Len(sent) = bot.sent_before + 1

C12_OnlyOwnList ==
  IF bot.pc = "idle" /\ bot'.pc = "dispatching" /\ bot'.handler \in C12_SubHandlers
  THEN /\ recent_events'.raiders = recent_events.raiders
       /\ C12_Appended(recent_events.subscribers, recent_events'.subscribers)
  ELSE IF bot.pc = "idle" /\ bot'.pc = "dispatching" /\ bot'.handler = "event_raid"
  THEN /\ recent_events'.subscribers = recent_events.subscribers
       /\ C12_Appended(recent_events.raiders, recent_events'.raiders)
  ELSE recent_events' = recent_events

C12_EventRecordedThenAnswered ==
  /\ [](C12_RecordedBeforeDispatch /\ C12_OneMessage)
  /\ [][C12_OnlyOwnList]_vars

\* a raid whose dispatch failed: recorded among the raiders only, answered once
C12_Witness ==
  /\ bot.pc = "idle" /\ bot.handled = 1 /\ bot.handler = "event_raid"
  /\ bot.error # None
  /\ Len(sent) = bot.sent_before + 1
  /\ Len(recent_events.raiders) = 1
  /\ recent_events.subscribers = <<>>

=============================================================================
